---------------------------- MODULE Spec2Model ----------------------------
(***************************************************************************)
(* Construction of the four pydantic models of the repository:             *)
(*   SpaceStation (ex0), AlienContact (ex1), CrewMember and SpaceMission   *)
(*   (ex2).                                                                *)
(* A constructor call runs the field stage (coercion and declared bounds   *)
(* of every Field(...), errors collected in declaration order) and, only   *)
(* when that stage reports nothing, the mode='after' model validator       *)
(* validate_rules, whose if-statements are taken one at a time and raise   *)
(* ValueError at the first rule that fails.                                *)
(*                                                                         *)
(* Values.  A Python value is a record [t |-> type tag, v |-> payload]:    *)
(*   str      a sequence of one-character strings                         *)
(*   int      an integer                                                   *)
(*   float    an integer number of tenths (8.5 is 85); every float the     *)
(*            code compares is a multiple of 0.1 compared with a literal   *)
(*            that is one too, so the order of the tenths is the order of  *)
(*            the floats                                                   *)
(*   bool, NoneType, enum (the member's name), datetime (its fields),      *)
(*   list (a sequence of values), dict (a function from keys to values)    *)
(* and "absent" stands for a keyword argument that is not passed.          *)
(***************************************************************************)
EXTENDS Integers, Sequences, FiniteSets, TLC

VARIABLES
    cls,        \* the class whose constructor is running ("" before a call)
    input,      \* the keyword arguments of the call
    pc,         \* position: "idle", a rule of validate_rules, "done"
    self,       \* the instance built by the field stage
    errors,     \* e.errors() of the ValidationError raised, in order
    outcome,    \* "pending", "ok" (instance returned), "raised"
    evaluated,  \* the rules of validate_rules evaluated so far (1..4)
    divisor     \* len(self.crew) at the division of space_crew.py:53

vars == <<cls, input, pc, self, errors, outcome, evaluated, divisor>>

----------------------------------------------------------------------------
(* Bounds of the explored inputs *)

\* at most this many keyword arguments of one SpaceStation or AlienContact
\* call are off-nominal
MaxFaulty == 2
\* at most this many of one CrewMember or SpaceMission call
MaxFaultyCrew == 1
\* crews of up to this many members are explored in every order
MaxAnyOrderCrew == 2
\* longest crew explored (block-ordered crews)
MaxCrewInput == 13

----------------------------------------------------------------------------
(* Python values *)

Str(s) == [t |-> "str", v |-> s]
Int_(n) == [t |-> "int", v |-> n]
Float(tenths) == [t |-> "float", v |-> tenths]
Bool(b) == [t |-> "bool", v |-> b]
None == [t |-> "NoneType", v |-> 0]
Enum(m) == [t |-> "enum", v |-> m]
Datetime(y, mo, d, h, mi, s) ==
    [t |-> "datetime", v |-> [year |-> y, month |-> mo, day |-> d,
                              hour |-> h, minute |-> mi, second |-> s]]
List(xs) == [t |-> "list", v |-> xs]
Dict(kw) == [t |-> "dict", v |-> kw]
Absent == [t |-> "absent", v |-> 0]

\* a string of n copies of the character c
Rep(n, c) == [i \in 1..n |-> c]

\* str.startswith(prefix)
startswith(s, prefix) ==
    /\ Len(s) >= Len(prefix)
    /\ SubSeq(s, 1, Len(prefix)) = prefix

----------------------------------------------------------------------------
(* Coercion (pydantic's lax mode) of the forms of input explored here *)

Digits == {"0", "1", "2", "3", "4", "5", "6", "7", "8", "9"}

DigitVal(c) ==
    CASE c = "0" -> 0 [] c = "1" -> 1 [] c = "2" -> 2 [] c = "3" -> 3
      [] c = "4" -> 4 [] c = "5" -> 5 [] c = "6" -> 6 [] c = "7" -> 7
      [] c = "8" -> 8 [] c = "9" -> 9

AllDigits(s) == Len(s) > 0 /\ \A i \in 1..Len(s) : s[i] \in Digits

RECURSIVE DecimalValue(_)
DecimalValue(s) ==
    IF Len(s) = 0 THEN 0
    ELSE 10 * DecimalValue(SubSeq(s, 1, Len(s) - 1)) + DigitVal(s[Len(s)])

IsLeap(y) == (y % 4 = 0 /\ y % 100 # 0) \/ y % 400 = 0

DaysInMonth(y, m) ==
    IF m = 2 THEN (IF IsLeap(y) THEN 29 ELSE 28)
    ELSE IF m \in {4, 6, 9, 11} THEN 30 ELSE 31

\* "YYYY-MM-DD"
IsDateText(s) ==
    /\ Len(s) >= 10
    /\ AllDigits(SubSeq(s, 1, 4)) /\ s[5] = "-"
    /\ AllDigits(SubSeq(s, 6, 7)) /\ s[8] = "-"
    /\ AllDigits(SubSeq(s, 9, 10))
    /\ DecimalValue(SubSeq(s, 6, 7)) \in 1..12
    /\ DecimalValue(SubSeq(s, 9, 10)) \in
           1..DaysInMonth(DecimalValue(SubSeq(s, 1, 4)),
                          DecimalValue(SubSeq(s, 6, 7)))

\* "THH:MM:SS" (or with a space for the T) at positions 11..19
IsTimeText(s) ==
    /\ Len(s) = 19
    /\ s[11] \in {"T", " "}
    /\ AllDigits(SubSeq(s, 12, 13)) /\ s[14] = ":"
    /\ AllDigits(SubSeq(s, 15, 16)) /\ s[17] = ":"
    /\ AllDigits(SubSeq(s, 18, 19))
    /\ DecimalValue(SubSeq(s, 12, 13)) \in 0..23
    /\ DecimalValue(SubSeq(s, 15, 16)) \in 0..59
    /\ DecimalValue(SubSeq(s, 18, 19)) \in 0..59

\* an ISO-8601 date or date-time string to a datetime; a date is midnight
ParseDatetime(s) ==
    IF IsDateText(s) /\ Len(s) = 10
    THEN [ok |-> TRUE,
          val |-> Datetime(DecimalValue(SubSeq(s, 1, 4)),
                           DecimalValue(SubSeq(s, 6, 7)),
                           DecimalValue(SubSeq(s, 9, 10)), 0, 0, 0)]
    ELSE IF IsDateText(s) /\ IsTimeText(s)
    THEN [ok |-> TRUE,
          val |-> Datetime(DecimalValue(SubSeq(s, 1, 4)),
                           DecimalValue(SubSeq(s, 6, 7)),
                           DecimalValue(SubSeq(s, 9, 10)),
                           DecimalValue(SubSeq(s, 12, 13)),
                           DecimalValue(SubSeq(s, 15, 16)),
                           DecimalValue(SubSeq(s, 18, 19)))]
    ELSE [ok |-> FALSE, val |-> None]

TrueTexts == {<<"1">>, <<"o", "n">>, <<"t">>, <<"t", "r", "u", "e">>,
              <<"y">>, <<"y", "e", "s">>}
FalseTexts == {<<"0">>, <<"o", "f", "f">>, <<"f">>,
               <<"f", "a", "l", "s", "e">>, <<"n">>, <<"n", "o">>}

Good(x) == [ok |-> TRUE, val |-> x, type |-> ""]
Bad(errType) == [ok |-> FALSE, val |-> None, type |-> errType]

\* mutant: the argument is stored as passed, unconverted
CoerceKeepsArgument(d, raw) == Good(raw)

\* raw value to the field's declared type d.type: the value, or the error type
Coerce(d, raw) ==
    IF d.nullable /\ raw.t = "NoneType" THEN Good(None)
    ELSE CASE d.type = "str" ->
                IF raw.t = "str" THEN Good(raw) ELSE Bad("string_type")
           [] d.type = "int" ->
                CASE raw.t = "int" -> Good(raw)
                  [] raw.t = "bool" -> Good(Int_(IF raw.v THEN 1 ELSE 0))
                  [] raw.t = "float" ->
                        IF raw.v % 10 = 0 THEN Good(Int_(raw.v \div 10))
                        ELSE Bad("int_from_float")
                  [] raw.t = "str" ->
                        IF AllDigits(raw.v) THEN Good(Int_(DecimalValue(raw.v)))
                        ELSE Bad("int_parsing")
                  [] OTHER -> Bad("int_type")
           [] d.type = "float" ->
                CASE raw.t = "float" -> Good(raw)
                  [] raw.t = "int" -> Good(Float(10 * raw.v))
                  [] raw.t = "bool" -> Good(Float(IF raw.v THEN 10 ELSE 0))
                  [] raw.t = "str" ->
                        IF AllDigits(raw.v)
                        THEN Good(Float(10 * DecimalValue(raw.v)))
                        ELSE Bad("float_parsing")
                  [] OTHER -> Bad("float_type")
           [] d.type = "bool" ->
                CASE raw.t = "bool" -> Good(raw)
                  [] raw.t = "int" ->
                        IF raw.v \in {0, 1} THEN Good(Bool(raw.v = 1))
                        ELSE Bad("bool_parsing")
                  [] raw.t = "str" ->
                        IF raw.v \in TrueTexts THEN Good(Bool(TRUE))
                        ELSE IF raw.v \in FalseTexts THEN Good(Bool(FALSE))
                        ELSE Bad("bool_parsing")
                  [] OTHER -> Bad("bool_type")
           [] d.type = "datetime" ->
                CASE raw.t = "datetime" -> Good(raw)
                  [] raw.t = "str" ->
                        IF ParseDatetime(raw.v).ok
                        THEN Good(ParseDatetime(raw.v).val)
                        ELSE Bad("datetime_from_date_parsing")
                  [] OTHER -> Bad("datetime_type")
           [] d.type = "enum" ->
                CASE raw.t = "enum" ->
                        IF raw.v \in d.members THEN Good(raw) ELSE Bad("enum")
                  [] raw.t = "str" ->
                        IF \E m \in d.members : d.value[m] = raw.v
                        THEN Good(Enum(CHOOSE m \in d.members :
                                           d.value[m] = raw.v))
                        ELSE Bad("enum")
                  [] OTHER -> Bad("enum")


----------------------------------------------------------------------------
(* Field declarations *)

\* Field(...) with no bound; the classes below add the declared ones.
\* ge/le/min_length/max_length hold the declared bound, or nothing.
Field(name, type) ==
    [name |-> name, type |-> type, required |-> TRUE, default |-> Absent,
     nullable |-> FALSE, ge |-> {}, le |-> {}, min_length |-> {},
     max_length |-> {}, members |-> {}, value |-> <<>>]

ContactType ==
    [members |-> {"radio", "visual", "physical", "telepathic"},
     value |-> [radio |-> <<"r", "a", "d", "i", "o">>,
                visual |-> <<"v", "i", "s", "u", "a", "l">>,
                physical |-> <<"p", "h", "y", "s", "i", "c", "a", "l">>,
                telepathic |-> <<"t", "e", "l", "e", "p", "a", "t", "h",
                                 "i", "c">>]]

Rank ==
    [members |-> {"cadet", "officer", "lieutenant", "captain", "commander"},
     value |-> [cadet |-> <<"c", "a", "d", "e", "t">>,
                officer |-> <<"o", "f", "f", "i", "c", "e", "r">>,
                lieutenant |-> <<"l", "i", "e", "u", "t", "e", "n", "a",
                                 "n", "t">>,
                captain |-> <<"c", "a", "p", "t", "a", "i", "n">>,
                commander |-> <<"c", "o", "m", "m", "a", "n", "d", "e",
                                "r">>]]

\* mutant: the upper bound of crew_size mistyped as 30
SpaceStation_crew_size_le30 ==
    [Field("crew_size", "int") EXCEPT !.ge = {1}, !.le = {30}]

SpaceStation_crew_size ==
    [Field("crew_size", "int") EXCEPT !.ge = {1}, !.le = {20}]

\* float bounds are in tenths: le=100.0 is 1000
SpaceStation == <<
    [Field("station_id", "str") EXCEPT !.min_length = {3}, !.max_length = {10}],
    [Field("name", "str") EXCEPT !.min_length = {1}, !.max_length = {50}],
    SpaceStation_crew_size,
    [Field("power_level", "float") EXCEPT !.ge = {0}, !.le = {1000}],
    [Field("oxygen_level", "float") EXCEPT !.ge = {0}, !.le = {1000}],
    Field("last_maintenance", "datetime"),
    [Field("is_operational", "bool") EXCEPT !.required = FALSE,
                                            !.default = Bool(TRUE)],
    [Field("notes", "str") EXCEPT !.required = FALSE, !.default = None,
                                  !.nullable = TRUE, !.max_length = {200}] >>

AlienContact == <<
    [Field("contact_id", "str") EXCEPT !.min_length = {5}, !.max_length = {15}],
    Field("timestamp", "datetime"),
    [Field("location", "str") EXCEPT !.min_length = {3}, !.max_length = {100}],
    [Field("contact_type", "enum") EXCEPT !.members = ContactType.members,
                                          !.value = ContactType.value],
    [Field("signal_strength", "float") EXCEPT !.ge = {0}, !.le = {100}],
    [Field("duration_minutes", "int") EXCEPT !.ge = {1}, !.le = {1440}],
    [Field("witness_count", "int") EXCEPT !.ge = {1}, !.le = {100}],
    [Field("message_received", "str") EXCEPT !.required = FALSE,
                                             !.default = None,
                                             !.nullable = TRUE,
                                             !.max_length = {500}],
    [Field("is_verified", "bool") EXCEPT !.required = FALSE,
                                         !.default = Bool(FALSE)] >>

CrewMember == <<
    [Field("member_id", "str") EXCEPT !.min_length = {3}, !.max_length = {10}],
    [Field("name", "str") EXCEPT !.min_length = {2}, !.max_length = {50}],
    [Field("rank", "enum") EXCEPT !.members = Rank.members,
                                  !.value = Rank.value],
    [Field("age", "int") EXCEPT !.ge = {18}, !.le = {80}],
    [Field("specialization", "str") EXCEPT !.min_length = {3},
                                           !.max_length = {30}],
    [Field("years_experience", "int") EXCEPT !.ge = {0}, !.le = {50}],
    [Field("is_active", "bool") EXCEPT !.required = FALSE,
                                       !.default = Bool(TRUE)] >>

\* crew is List[CrewMember]: its items are validated as CrewMember
SpaceMission == <<
    [Field("mission_id", "str") EXCEPT !.min_length = {5}, !.max_length = {15}],
    [Field("mission_name", "str") EXCEPT !.min_length = {3},
                                         !.max_length = {100}],
    [Field("destination", "str") EXCEPT !.min_length = {3}, !.max_length = {50}],
    Field("launch_date", "datetime"),
    [Field("duration_days", "int") EXCEPT !.ge = {1}, !.le = {3650}],
    [Field("crew", "list") EXCEPT !.min_length = {1}, !.max_length = {12}],
    [Field("mission_status", "str") EXCEPT
         !.required = FALSE,
         !.default = Str(<<"p", "l", "a", "n", "n", "e", "d">>)],
    [Field("budget_millions", "float") EXCEPT !.ge = {10}, !.le = {100000}] >>

FieldsOf(c) ==
    CASE c = "SpaceStation" -> SpaceStation
      [] c = "AlienContact" -> AlienContact
      [] c = "CrewMember" -> CrewMember
      [] c = "SpaceMission" -> SpaceMission

Names(fields) == {fields[i].name : i \in 1..Len(fields)}

----------------------------------------------------------------------------
(* The field stage *)

Error(type, loc) == [type |-> type, loc |-> loc, msg |-> ""]

\* mutant: max_length of a string is not checked
CheckBoundsNoMaxLength(d, val, loc) ==
    CASE val.t = "str" ->
            IF \E b \in d.min_length : Len(val.v) < b
            THEN <<Error("string_too_short", loc)>>
            ELSE <<>>
      [] val.t \in {"int", "float"} ->
            IF \E b \in d.le : ~(val.v <= b)
            THEN <<Error("less_than_equal", loc)>>
            ELSE IF \E b \in d.ge : ~(val.v >= b)
            THEN <<Error("greater_than_equal", loc)>>
            ELSE <<>>
      [] OTHER -> <<>>

\* the declared bounds of d on a coerced value: the first one that fails
CheckBounds(d, val, loc) ==
    CASE val.t = "str" ->
            IF \E b \in d.min_length : Len(val.v) < b
            THEN <<Error("string_too_short", loc)>>
            ELSE IF \E b \in d.max_length : Len(val.v) > b
            THEN <<Error("string_too_long", loc)>>
            ELSE <<>>
      [] val.t \in {"int", "float"} ->
            IF \E b \in d.le : ~(val.v <= b)
            THEN <<Error("less_than_equal", loc)>>
            ELSE IF \E b \in d.ge : ~(val.v >= b)
            THEN <<Error("greater_than_equal", loc)>>
            ELSE <<>>
      [] OTHER -> <<>>

\* the concatenation of the errors of results i.. of a sequence of results
RECURSIVE AllErrors(_, _)
AllErrors(results, i) ==
    IF i > Len(results) THEN <<>>
    ELSE results[i].errs \o AllErrors(results, i + 1)

\* mutant: the field stage stops at the first field that reports an error
RECURSIVE FirstErrors(_, _)
FirstErrors(results, i) ==
    IF i > Len(results) THEN <<>>
    ELSE IF results[i].errs # <<>> THEN results[i].errs
    ELSE FirstErrors(results, i + 1)

FieldErrorsFailFast(results) == FirstErrors(results, 1)

\* every field is checked, in declaration order; the errors of all of them
\* are reported, none skipped
FieldErrors(results) == AllErrors(results, 1)

\* The field stage below binds an intermediate result with
\*    CHOOSE x \in {Body(r) : r \in {e}} : TRUE
\* which is Body(e) with e evaluated once.

\* the outcome of a model's field stage from the results of its fields
ModelResult(fields, results) ==
    [errs |-> FieldErrors(results),
     val |-> [n \in Names(fields) |->
                results[CHOOSE i \in 1..Len(fields) : fields[i].name = n].val]]

\* one field of a scalar type: missing, then coercion, then the declared
\* bounds
CheckScalar(d, raw, loc) ==
    IF raw.t = "absent"
    THEN IF d.required
         THEN [errs |-> <<Error("missing", loc)>>, val |-> None]
         ELSE [errs |-> <<>>, val |-> d.default]
    ELSE CHOOSE res \in
             {IF ~c.ok THEN [errs |-> <<Error(c.type, loc)>>, val |-> None]
              ELSE [errs |-> CheckBounds(d, c.val, loc), val |-> c.val] :
                c \in {Coerce(d, raw)}} : TRUE

\* the field stage of a model whose fields are all of scalar types
ValidateScalars(fields, kw, loc) ==
    CHOOSE m \in
        {ModelResult(fields, results) :
           results \in {[i \in 1..Len(fields) |->
                           CheckScalar(fields[i], kw[fields[i].name],
                                       loc \o <<fields[i].name>>)]}} : TRUE

\* one item of List[CrewMember]: an instance is taken as it is, a dict is
\* validated against the fields of CrewMember (all of scalar types)
CheckItem(raw, loc) ==
    CASE raw.t = "CrewMember" -> [errs |-> <<>>, val |-> raw]
      [] raw.t = "dict" ->
            CHOOSE item \in
                {[errs |-> r.errs, val |-> [t |-> "CrewMember", v |-> r.val]] :
                   r \in {ValidateScalars(CrewMember, raw.v, loc)}} : TRUE
      [] OTHER -> [errs |-> <<Error("model_type", loc)>>, val |-> None]

\* mutant: min_length of a list is not checked
ItemsResultNoMinLength(d, items, loc) ==
    IF \E i \in 1..Len(items) : items[i].errs # <<>>
    THEN [errs |-> AllErrors(items, 1), val |-> None]
    ELSE [errs |-> <<>>, val |-> List([i \in 1..Len(items) |-> items[i].val])]

\* the list from its checked items: the items' errors, else min_length on
\* the result
ItemsResult(d, items, loc) ==
    IF \E i \in 1..Len(items) : items[i].errs # <<>>
    THEN [errs |-> AllErrors(items, 1), val |-> None]
    ELSE IF \E b \in d.min_length : Len(items) < b
    THEN [errs |-> <<Error("too_short", loc)>>, val |-> None]
    ELSE [errs |-> <<>>, val |-> List([i \in 1..Len(items) |-> items[i].val])]

\* a list field: more items than max_length ends the field with too_long;
\* otherwise the items' errors; otherwise min_length on the result
CheckList(d, raw, loc) ==
    IF raw.t # "list" THEN [errs |-> <<Error("list_type", loc)>>, val |-> None]
    ELSE IF \E b \in d.max_length : Len(raw.v) > b
    THEN [errs |-> <<Error("too_long", loc)>>, val |-> None]
    ELSE CHOOSE res \in {ItemsResult(d, items, loc) :
                            items \in {[i \in 1..Len(raw.v) |->
                                          CheckItem(raw.v[i], loc \o <<i>>)]}} :
             TRUE

\* one field
CheckField(d, raw, loc) ==
    IF d.type = "list" /\ raw.t # "absent" THEN CheckList(d, raw, loc)
    ELSE CheckScalar(d, raw, loc)

\* the field stage of a model
ValidateFields(fields, kw, loc) ==
    CHOOSE m \in
        {ModelResult(fields, results) :
           results \in {[i \in 1..Len(fields) |->
                           CheckField(fields[i], kw[fields[i].name],
                                      loc \o <<fields[i].name>>)]}} : TRUE

----------------------------------------------------------------------------
(* The string literals of the three main() functions, and off-nominal ones *)

s_ISS001 ==
        <<"I", "S", "S", "0", "0", "1">>
s_ISS ==
        <<"I", "S", "S">>
s_IS ==
        <<"I", "S">>
s_InternationalSpaceStation ==
        <<"I", "n", "t", "e", "r", "n", "a", "t", "i", "o", "n", "a", "l",
          " ", "S", "p", "a", "c", "e", " ", "S", "t", "a", "t", "i", "o",
          "n">>
s_Six ==
        <<"6">>
s_Abc ==
        <<"a", "b", "c">>
s_Maybe ==
        <<"m", "a", "y", "b", "e">>
s_Date_2024_02_29 ==
        <<"2", "0", "2", "4", "-", "0", "2", "-", "2", "9">>
s_Date_2024_01_15T10_30_00 ==
        <<"2", "0", "2", "4", "-", "0", "1", "-", "1", "5", "T", "1", "0",
          ":", "3", "0", ":", "0", "0">>
s_Date_2024_02_30 ==
        <<"2", "0", "2", "4", "-", "0", "2", "-", "3", "0">>
s_Date_2023_02_29 ==
        <<"2", "0", "2", "3", "-", "0", "2", "-", "2", "9">>
s_AC_2024_001 ==
        <<"A", "C", "_", "2", "0", "2", "4", "_", "0", "0", "1">>
s_AC2024_001 ==
        <<"A", "C", "2", "0", "2", "4", "_", "0", "0", "1">>
s_AB_2024_001 ==
        <<"A", "B", "_", "2", "0", "2", "4", "_", "0", "0", "1">>
s_XAC_2024_01 ==
        <<"X", "A", "C", "_", "2", "0", "2", "4", "_", "0", "1">>
s_AC_1 ==
        <<"A", "C", "_", "1">>
s_XY ==
        <<"X", "Y">>
s_Date_2024_12_12 ==
        <<"2", "0", "2", "4", "-", "1", "2", "-", "1", "2">>
s_Tomorrow ==
        <<"t", "o", "m", "o", "r", "r", "o", "w">>
s_Area51Nevada ==
        <<"A", "r", "e", "a", " ", "5", "1", ",", " ", "N", "e", "v", "a",
          "d", "a">>
s_A5 ==
        <<"A", "5">>
s_Visual ==
        <<"v", "i", "s", "u", "a", "l">>
s_Smoke ==
        <<"s", "m", "o", "k", "e">>
s_Greetings ==
        <<"G", "r", "e", "e", "t", "i", "n", "g", "s", " ", "f", "r", "o",
          "m", " ", "Z", "e", "t", "a", " ", "R", "e", "t", "i", "c", "u",
          "l", "i">>
s_S001 ==
        <<"S", "0", "0", "1">>
s_J001 ==
        <<"J", "0", "0", "1">>
s_A001 ==
        <<"A", "0", "0", "1">>
s_K001 ==
        <<"K", "0", "0", "1">>
s_R001 ==
        <<"R", "0", "0", "1">>
s_N001 ==
        <<"N", "0", "0", "1">>
s_S1 ==
        <<"S", "1">>
s_SarahConnor ==
        <<"S", "a", "r", "a", "h", " ", "C", "o", "n", "n", "o", "r">>
s_JohnSmith ==
        <<"J", "o", "h", "n", " ", "S", "m", "i", "t", "h">>
s_AliceJohnson ==
        <<"A", "l", "i", "c", "e", " ", "J", "o", "h", "n", "s", "o",
          "n">>
s_KyleReese ==
        <<"K", "y", "l", "e", " ", "R", "e", "e", "s", "e">>
s_EllenRipley ==
        <<"E", "l", "l", "e", "n", " ", "R", "i", "p", "l", "e", "y">>
s_Newt ==
        <<"N", "e", "w", "t">>
s_Al ==
        <<"A", "l">>
s_S_ ==
        <<"S">>
s_MissionCommand ==
        <<"M", "i", "s", "s", "i", "o", "n", " ", "C", "o", "m", "m", "a",
          "n", "d">>
s_Navigation ==
        <<"N", "a", "v", "i", "g", "a", "t", "i", "o", "n">>
s_Engineering ==
        <<"E", "n", "g", "i", "n", "e", "e", "r", "i", "n", "g">>
s_Security ==
        <<"S", "e", "c", "u", "r", "i", "t", "y">>
s_Piloting ==
        <<"P", "i", "l", "o", "t", "i", "n", "g">>
s_Survival ==
        <<"S", "u", "r", "v", "i", "v", "a", "l">>
s_AI ==
        <<"A", "I">>
s_CaptainText ==
        <<"c", "a", "p", "t", "a", "i", "n">>
s_Admiral ==
        <<"a", "d", "m", "i", "r", "a", "l">>
s_M2024_MARS ==
        <<"M", "2", "0", "2", "4", "_", "M", "A", "R", "S">>
s_X2024_MARS ==
        <<"X", "2", "0", "2", "4", "_", "M", "A", "R", "S">>
s_M24 ==
        <<"M", "2", "4">>
s_MarsColonyEstablishment ==
        <<"M", "a", "r", "s", " ", "C", "o", "l", "o", "n", "y", " ", "E",
          "s", "t", "a", "b", "l", "i", "s", "h", "m", "e", "n", "t">>
s_Ma ==
        <<"M", "a">>
s_Mars ==
        <<"M", "a", "r", "s">>
s_Io ==
        <<"I", "o">>
s_Date_2024_01_01 ==
        <<"2", "0", "2", "4", "-", "0", "1", "-", "0", "1">>
s_Soon ==
        <<"s", "o", "o", "n">>
s_Active ==
        <<"a", "c", "t", "i", "v", "e">>

----------------------------------------------------------------------------
(* The explored keyword arguments.  For each class and field: Nominal holds *)
(* values the field accepts (the literals of main() and the values at the   *)
(* declared bounds), Faulty holds values it rejects (missing, uncoercible,  *)
(* just outside a bound).  A call passes at most MaxFaulty faulty values.   *)

StationNominal ==
    [station_id |-> {Str(s_ISS001), Str(s_ISS)},
     name |-> {Str(s_InternationalSpaceStation), Str(Rep(50, "n"))},
     crew_size |-> {Int_(6), Int_(1), Int_(20), Str(s_Six)},
     power_level |-> {Float(135), Int_(100)},
     oxygen_level |-> {Float(567)},
     last_maintenance |-> {Str(s_Date_2024_02_29),
                           Str(s_Date_2024_01_15T10_30_00)},
     is_operational |-> {Absent, Bool(FALSE)},
     notes |-> {Absent, None, Str(Rep(200, "n"))}]

StationFaulty ==
    [station_id |-> {Str(s_IS), Str(Rep(11, "I")), Absent},
     name |-> {Str(<<>>), Str(Rep(51, "n"))},
     crew_size |-> {Int_(0), Int_(21), Int_(23), Str(s_Abc), Float(65)},
     power_level |-> {Float(-1), Float(1001)},
     oxygen_level |-> {Float(-5), Int_(101)},
     last_maintenance |-> {Str(s_Date_2024_02_30), Str(s_Date_2023_02_29)},
     is_operational |-> {Str(s_Maybe)},
     notes |-> {Str(Rep(201, "n"))}]

ContactNominal ==
    [contact_id |-> {Str(s_AC_2024_001), Str(s_AC2024_001),
                     Str(s_AB_2024_001), Str(s_XAC_2024_01)},
     timestamp |-> {Str(s_Date_2024_12_12)},
     location |-> {Str(s_Area51Nevada)},
     contact_type |-> {Enum("radio"), Enum("physical"), Enum("telepathic"),
                       Str(s_Visual)},
     signal_strength |-> {Float(70), Float(85)},
     duration_minutes |-> {Int_(45)},
     witness_count |-> {Int_(1), Int_(2), Int_(3)},
     message_received |-> {Absent, None, Str(s_Greetings)},
     is_verified |-> {Absent, Bool(TRUE)}]

ContactFaulty ==
    [contact_id |-> {Str(s_AC_1), Str(s_XY), Str(Rep(16, "A")), Absent},
     timestamp |-> {Str(s_Tomorrow)},
     location |-> {Str(s_A5)},
     contact_type |-> {Str(s_Smoke), Enum("captain")},
     signal_strength |-> {Float(101), Float(-1)},
     duration_minutes |-> {Int_(0), Int_(1441)},
     witness_count |-> {Int_(0), Int_(101)},
     message_received |-> {Str(Rep(501, "m"))},
     is_verified |-> {Str(s_Maybe)}]

MemberNominal ==
    [member_id |-> {Str(s_S001)},
     name |-> {Str(s_SarahConnor), Str(s_Al)},
     rank |-> {Enum("commander"), Enum("cadet"), Str(s_CaptainText)},
     age |-> {Int_(27), Int_(18), Int_(80)},
     specialization |-> {Str(s_MissionCommand)},
     years_experience |-> {Int_(9), Int_(5), Int_(0), Int_(50)},
     is_active |-> {Absent, Bool(FALSE)}]

MemberFaulty ==
    [member_id |-> {Str(s_S1), Absent},
     name |-> {Str(s_S_)},
     rank |-> {Str(s_Admiral)},
     age |-> {Int_(17), Int_(81)},
     specialization |-> {Str(s_AI)},
     years_experience |-> {Int_(-1), Int_(51)},
     is_active |-> {Str(s_Maybe)}]

\* the keyword arguments of one crew member
Member(id, name, rank, age, spec, years, active) ==
    [member_id |-> Str(id), name |-> Str(name), rank |-> Enum(rank),
     age |-> Int_(age), specialization |-> Str(spec),
     years_experience |-> Int_(years), is_active |-> active]

\* sarah, john and alice are main()'s; kyle is a captain short of 5 years,
\* ripley has exactly 5 years and is not active, newt is under age
sarah == Member(s_S001, s_SarahConnor, "commander", 27, s_MissionCommand, 9,
                Absent)
john == Member(s_J001, s_JohnSmith, "lieutenant", 25, s_Navigation, 7, Absent)
alice == Member(s_A001, s_AliceJohnson, "officer", 21, s_Engineering, 3,
                Absent)
kyle == Member(s_K001, s_KyleReese, "captain", 30, s_Security, 4, Absent)
ripley == Member(s_R001, s_EllenRipley, "cadet", 40, s_Piloting, 5,
                 Bool(FALSE))
newt == Member(s_N001, s_Newt, "cadet", 17, s_Survival, 0, Absent)

\* CrewMember(**kw) for keyword arguments the class accepts
Instance(kw) ==
    [t |-> "CrewMember", v |-> ValidateFields(CrewMember, kw, <<>>).val]

\* crews passed as dicts, every order of up to MaxAnyOrderCrew members
AnyOrderCrews(kinds) ==
    UNION {[1..n -> {Dict(k) : k \in kinds}] : n \in 1..MaxAnyOrderCrew}

\* crews passed as instances: a of sarah, then b of alice, then c of ripley
BlockCrew(a, b, c) ==
    [i \in 1..(a + b + c) |->
        IF i <= a THEN Instance(sarah)
        ELSE IF i <= a + b THEN Instance(alice) ELSE Instance(ripley)]

BlockCrews(lens) ==
    {BlockCrew(a, b, c) : <<a, b, c>> \in
        {t \in (0..MaxCrewInput) \X (0..MaxCrewInput) \X (0..1) :
            t[1] + t[2] + t[3] \in lens}}

MissionNominal ==
    [mission_id |-> {Str(s_M2024_MARS), Str(s_X2024_MARS)},
     mission_name |-> {Str(s_MarsColonyEstablishment)},
     destination |-> {Str(s_Mars)},
     launch_date |-> {Str(s_Date_2024_01_01)},
     duration_days |-> {Int_(365), Int_(366), Int_(900)},
     crew |-> {List(c) : c \in AnyOrderCrews({sarah, john, alice, kyle, ripley})
                               \cup BlockCrews(1..12)},
     mission_status |-> {Absent, Str(s_Active)},
     budget_millions |-> {Float(25000)}]

MissionFaulty ==
    [mission_id |-> {Str(s_M24), Absent},
     mission_name |-> {Str(s_Ma)},
     destination |-> {Str(s_Io)},
     launch_date |-> {Str(s_Soon)},
     duration_days |-> {Int_(0), Int_(3651)},
     crew |-> {List(c) : c \in
                  (AnyOrderCrews({sarah, john, alice, kyle, ripley, newt})
                     \ AnyOrderCrews({sarah, john, alice, kyle, ripley}))
                  \cup BlockCrews({0} \cup (13..MaxCrewInput))},
     mission_status |-> {Int_(1)},
     budget_millions |-> {Float(9), Float(100001)}]

Either(N, F, f) == N[f] \cup F[f]

FewFaulty(kw, F, most) ==
    Cardinality({f \in DOMAIN kw : kw[f] \in F[f]}) <= most

StationInputs ==
    LET N == StationNominal  F == StationFaulty
    IN {kw \in [station_id : Either(N, F, "station_id"),
                name : Either(N, F, "name"),
                crew_size : Either(N, F, "crew_size"),
                power_level : Either(N, F, "power_level"),
                oxygen_level : Either(N, F, "oxygen_level"),
                last_maintenance : Either(N, F, "last_maintenance"),
                is_operational : Either(N, F, "is_operational"),
                notes : Either(N, F, "notes")] : FewFaulty(kw, F, MaxFaulty)}

ContactInputs ==
    LET N == ContactNominal  F == ContactFaulty
    IN {kw \in [contact_id : Either(N, F, "contact_id"),
                timestamp : Either(N, F, "timestamp"),
                location : Either(N, F, "location"),
                contact_type : Either(N, F, "contact_type"),
                signal_strength : Either(N, F, "signal_strength"),
                duration_minutes : Either(N, F, "duration_minutes"),
                witness_count : Either(N, F, "witness_count"),
                message_received : Either(N, F, "message_received"),
                is_verified : Either(N, F, "is_verified")] : FewFaulty(kw, F, MaxFaulty)}

MemberInputs ==
    LET N == MemberNominal  F == MemberFaulty
    IN {kw \in [member_id : Either(N, F, "member_id"),
                name : Either(N, F, "name"),
                rank : Either(N, F, "rank"),
                age : Either(N, F, "age"),
                specialization : Either(N, F, "specialization"),
                years_experience : Either(N, F, "years_experience"),
                is_active : Either(N, F, "is_active")] : FewFaulty(kw, F, MaxFaultyCrew)}

MissionInputs ==
    LET N == MissionNominal  F == MissionFaulty
    IN {kw \in [mission_id : Either(N, F, "mission_id"),
                mission_name : Either(N, F, "mission_name"),
                destination : Either(N, F, "destination"),
                launch_date : Either(N, F, "launch_date"),
                duration_days : Either(N, F, "duration_days"),
                crew : Either(N, F, "crew"),
                mission_status : Either(N, F, "mission_status"),
                budget_millions : Either(N, F, "budget_millions")] :
            FewFaulty(kw, F, MaxFaultyCrew)}

----------------------------------------------------------------------------
(* The constructor call: the field stage, then validate_rules *)

NoInstance == <<>>

HasRules(c) == c \in {"AlienContact", "SpaceMission"}

Init ==
    /\ cls = ""
    /\ input = <<>>
    /\ pc = "idle"
    /\ self = NoInstance
    /\ errors = <<>>
    /\ outcome = "pending"
    /\ evaluated = {}
    /\ divisor = {}

\* mutant: the model validator is called whatever the field stage reported
ConstructThenRules(c, kw) ==
    /\ cls' = c
    /\ input' = kw
    /\ \E r \in {ValidateFields(FieldsOf(c), kw, <<>>)} :
           /\ errors' = r.errs
           /\ self' = r.val
           /\ outcome' = IF HasRules(c) THEN "pending"
                         ELSE IF r.errs # <<>> THEN "raised" ELSE "ok"
           /\ pc' = IF HasRules(c) THEN "rule1" ELSE "done"
    /\ UNCHANGED <<evaluated, divisor>>

\* Class(**kw), called once (pc = "idle"): every field is checked; any error
\* raises ValidationError with all of them and the model validator is not
\* called
Construct(c, kw) ==
    /\ cls' = c
    /\ input' = kw
    /\ \E r \in {ValidateFields(FieldsOf(c), kw, <<>>)} :
           IF r.errs # <<>>
           THEN /\ errors' = r.errs
                /\ self' = NoInstance
                /\ outcome' = "raised"
                /\ pc' = "done"
           ELSE /\ errors' = <<>>
                /\ self' = r.val
                /\ outcome' = IF HasRules(c) THEN "pending" ELSE "ok"
                /\ pc' = IF HasRules(c) THEN "rule1" ELSE "done"
    /\ UNCHANGED <<evaluated, divisor>>

ConstructSpaceStation ==
    /\ pc = "idle"
    /\ \E kw \in StationInputs : Construct("SpaceStation", kw)
ConstructAlienContact ==
    /\ pc = "idle"
    /\ \E kw \in ContactInputs : Construct("AlienContact", kw)
ConstructCrewMember ==
    /\ pc = "idle"
    /\ \E kw \in MemberInputs : Construct("CrewMember", kw)
ConstructSpaceMission ==
    /\ pc = "idle"
    /\ \E kw \in MissionInputs : Construct("SpaceMission", kw)

ValueError(msg) == [type |-> "value_error", loc |-> <<>>, msg |-> msg]

\* mutant: a failing rule records its error and the next rule is evaluated
RuleCollectAll(c, n, fails, msg) ==
    /\ cls = c
    /\ pc = "rule" \o ToString(n)
    /\ evaluated' = evaluated \cup {n}
    /\ errors' = IF fails THEN Append(errors, ValueError(msg)) ELSE errors
    /\ outcome' = IF n < 4 THEN outcome
                  ELSE IF errors' # <<>> THEN "raised" ELSE "ok"
    /\ pc' = IF n = 4 THEN "done" ELSE "rule" \o ToString(n + 1)
    /\ UNCHANGED <<cls, input, self>>

\* one if-statement of validate_rules: raise ValueError(msg) when it fails,
\* else go on to the next statement (after the last one: return self)
Rule(c, n, fails, msg) ==
    /\ cls = c
    /\ pc = "rule" \o ToString(n)
    /\ evaluated' = evaluated \cup {n}
    /\ IF fails
       THEN /\ errors' = <<ValueError(msg)>>
            /\ outcome' = "raised"
            /\ pc' = "done"
       ELSE /\ errors' = errors
            /\ outcome' = IF n = 4 THEN "ok" ELSE outcome
            /\ pc' = IF n = 4 THEN "done" ELSE "rule" \o ToString(n + 1)
    /\ UNCHANGED <<cls, input, self>>

(* AlienContact.validate_rules *)

\* mutant: the prefix is taken with its separator, "AC_"
ContactIdFailsTokenized(m) == ~startswith(m.contact_id.v, <<"A", "C", "_">>)

ContactIdFails(m) == ~startswith(m.contact_id.v, <<"A", "C">>)

PhysicalFails(m) ==
    m.contact_type = Enum("physical") /\ m.is_verified = Bool(FALSE)

TelepathicFails(m) ==
    m.contact_type = Enum("telepathic") /\ m.witness_count.v < 3

\* signal_strength > 7.0, in tenths
StrongSignalFails(m) ==
    m.signal_strength.v > 70 /\ m.message_received = None

ContactIdRule ==
    /\ Rule("AlienContact", 1, ContactIdFails(self),
            "Contact ID must start with AC")
    /\ UNCHANGED divisor

PhysicalVerifiedRule ==
    /\ Rule("AlienContact", 2, PhysicalFails(self),
            "Physical contact reports must be verified")
    /\ UNCHANGED divisor

TelepathicWitnessRule ==
    /\ Rule("AlienContact", 3, TelepathicFails(self),
            "Telepathic contact requires at least 3 witnesses")
    /\ UNCHANGED divisor

StrongSignalRule ==
    /\ Rule("AlienContact", 4, StrongSignalFails(self),
            "Strong signals (> 7.0) should include received messages")
    /\ UNCHANGED divisor

(* SpaceMission.validate_rules *)

MissionIdFails(m) == ~startswith(m.mission_id.v, <<"M">>)

has_commander(m) ==
    \E i \in 1..Len(m.crew.v) :
        m.crew.v[i].v.rank.v \in {"captain", "commander"}

experimented(m) ==
    Cardinality({i \in 1..Len(m.crew.v) :
                    m.crew.v[i].v.years_experience.v >= 5})

\* (count / total * 100) < percent for total > 0.  The quotient of the code
\* is a double; rounding is monotonic and 0.5 is a double, so the test is
\* that of the exact quotient for every total below 2^52.
PercentBelow(count, total, percent) == count * 100 < percent * total

\* mutant: exactly 50% fails too
ExperienceFailsAtHalf(m) ==
    /\ m.duration_days.v > 365
    /\ experimented(m) * 100 <= 50 * Len(m.crew.v)

ExperienceFails(m) ==
    /\ m.duration_days.v > 365
    /\ PercentBelow(experimented(m), Len(m.crew.v), 50)

\* mutant: any() for all()
any_active(m) ==
    \E i \in 1..Len(m.crew.v) : m.crew.v[i].v.is_active.v

all_active(m) ==
    \A i \in 1..Len(m.crew.v) : m.crew.v[i].v.is_active.v

MissionIdRule ==
    /\ Rule("SpaceMission", 1, MissionIdFails(self),
            "Mission ID must start with 'M'")
    /\ UNCHANGED divisor

CommanderRule ==
    /\ Rule("SpaceMission", 2, ~has_commander(self),
            "Mission must have at least one Commander or Captain")
    /\ UNCHANGED divisor

\* the division is evaluated only when duration_days > 365; a crew of length
\* 0 there raises ZeroDivisionError out of the validator
ExperienceRule ==
    IF cls = "SpaceMission" /\ pc = "rule3" /\ self.duration_days.v > 365
       /\ Len(self.crew.v) = 0
    THEN /\ outcome' = "ZeroDivisionError"
         /\ pc' = "done"
         /\ evaluated' = evaluated \cup {3}
         /\ divisor' = {0}
         /\ UNCHANGED <<cls, input, self, errors>>
    ELSE /\ Rule("SpaceMission", 3, ExperienceFails(self),
                 "Long missions (> 365 days) need 50%experienced crew (5+ years)")
         /\ divisor' = IF self.duration_days.v > 365
                       THEN {Len(self.crew.v)} ELSE divisor

AllActiveRule ==
    /\ Rule("SpaceMission", 4, ~all_active(self),
            "All crew members must be active")
    /\ UNCHANGED divisor

Next ==
    \/ ConstructSpaceStation
    \/ ConstructAlienContact
    \/ ConstructCrewMember
    \/ ConstructSpaceMission
    \/ ContactIdRule
    \/ PhysicalVerifiedRule
    \/ TelepathicWitnessRule
    \/ StrongSignalRule
    \/ MissionIdRule
    \/ CommanderRule
    \/ ExperienceRule
    \/ AllActiveRule

Spec == Init /\ [][Next]_vars


----------------------------------------------------------------------------
(* What the properties below are stated with.  These read the call's        *)
(* keyword arguments and its visible result only.                           *)

NominalOf(c) ==
    CASE c = "SpaceStation" -> StationNominal
      [] c = "AlienContact" -> ContactNominal
      [] c = "CrewMember" -> MemberNominal
      [] c = "SpaceMission" -> MissionNominal

FaultyOf(c) ==
    CASE c = "SpaceStation" -> StationFaulty
      [] c = "AlienContact" -> ContactFaulty
      [] c = "CrewMember" -> MemberFaulty
      [] c = "SpaceMission" -> MissionFaulty

Called(c) == pc # "idle" /\ cls = c
Done(c) == pc = "done" /\ cls = c

\* every keyword argument is one its field accepts
AllNominal == \A f \in DOMAIN input : input[f] \in NominalOf(cls)[f]
\* some keyword argument is missing, uncoercible or outside a bound
SomeFaulty == \E f \in DOMAIN input : input[f] \in FaultyOf(cls)[f]

RuleErrors == SelectSeq(errors, LAMBDA e : e.type = "value_error")
FieldStageErrors == SelectSeq(errors, LAMBDA e : e.type # "value_error")

BoundErrorTypes ==
    {"string_too_short", "string_too_long", "greater_than_equal",
     "less_than_equal", "too_short", "too_long"}

(* the rules, read off the keyword arguments of a nominal call *)

ArgStartsAC ==
    /\ Len(input.contact_id.v) >= 2
    /\ input.contact_id.v[1] = "A"
    /\ input.contact_id.v[2] = "C"

ContactViolated ==
    {n \in 1..4 :
        \/ n = 1 /\ ~ArgStartsAC
        \/ n = 2 /\ input.contact_type = Enum("physical")
                 /\ input.is_verified # Bool(TRUE)
        \/ n = 3 /\ input.contact_type = Enum("telepathic")
                 /\ input.witness_count.v < 3
        \/ n = 4 /\ input.signal_strength.v > 70
                 /\ input.message_received \in {Absent, None}}

ArgCrew == input.crew.v
ArgSenior ==
    {i \in 1..Len(ArgCrew) : ArgCrew[i].v.rank.v \in {"captain", "commander"}}
ArgExperienced ==
    {i \in 1..Len(ArgCrew) : ArgCrew[i].v.years_experience.v >= 5}
ArgInactive ==
    {i \in 1..Len(ArgCrew) : ArgCrew[i].v.is_active = Bool(FALSE)}

ArgStartsM == Len(input.mission_id.v) >= 1 /\ input.mission_id.v[1] = "M"
ArgLong == input.duration_days.v > 365
\* experienced / crew size x 100 is below 50
ArgBelowHalf == 100 * Cardinality(ArgExperienced) < 50 * Len(ArgCrew)

MissionViolated ==
    {n \in 1..4 :
        \/ n = 1 /\ ~ArgStartsM
        \/ n = 2 /\ ArgSenior = {}
        \/ n = 3 /\ ArgLong /\ ArgBelowHalf
        \/ n = 4 /\ ArgInactive # {}}

Violated == IF cls = "AlienContact" THEN ContactViolated
            ELSE IF cls = "SpaceMission" THEN MissionViolated ELSE {}

Min(S) == CHOOSE n \in S : \A m \in S : n <= m

RuleMessage(c, n) ==
    IF c = "AlienContact"
    THEN CASE n = 1 -> "Contact ID must start with AC"
           [] n = 2 -> "Physical contact reports must be verified"
           [] n = 3 -> "Telepathic contact requires at least 3 witnesses"
           [] n = 4 -> "Strong signals (> 7.0) should include received messages"
    ELSE CASE n = 1 -> "Mission ID must start with 'M'"
           [] n = 2 -> "Mission must have at least one Commander or Captain"
           [] n = 3 -> "Long missions (> 365 days) need 50%experienced crew (5+ years)"
           [] n = 4 -> "All crew members must be active"

RuleError(c, n) == [type |-> "value_error", loc |-> <<>>, msg |-> RuleMessage(c, n)]

(* the declared schemas, written out, on a constructed value *)

StrIn(x, lo, hi) == x.t = "str" /\ Len(x.v) >= lo /\ Len(x.v) <= hi
NumIn(x, type, lo, hi) == x.t = type /\ x.v >= lo /\ x.v <= hi

StationHolds(r) ==
    /\ StrIn(r.station_id, 3, 10)
    /\ StrIn(r.name, 1, 50)
    /\ NumIn(r.crew_size, "int", 1, 20)
    /\ NumIn(r.power_level, "float", 0, 1000)
    /\ NumIn(r.oxygen_level, "float", 0, 1000)
    /\ r.last_maintenance.t = "datetime"
    /\ r.is_operational.t = "bool"
    /\ (r.notes = None \/ StrIn(r.notes, 0, 200))

ContactHolds(r) ==
    /\ StrIn(r.contact_id, 5, 15)
    /\ r.timestamp.t = "datetime"
    /\ StrIn(r.location, 3, 100)
    /\ r.contact_type.t = "enum"
    /\ r.contact_type.v \in {"radio", "visual", "physical", "telepathic"}
    /\ NumIn(r.signal_strength, "float", 0, 100)
    /\ NumIn(r.duration_minutes, "int", 1, 1440)
    /\ NumIn(r.witness_count, "int", 1, 100)
    /\ (r.message_received = None \/ StrIn(r.message_received, 0, 500))
    /\ r.is_verified.t = "bool"
    /\ r.contact_id.v[1] = "A" /\ r.contact_id.v[2] = "C"
    /\ (r.contact_type.v = "physical" => r.is_verified.v)
    /\ (r.contact_type.v = "telepathic" => r.witness_count.v >= 3)
    /\ (r.signal_strength.v > 70 => r.message_received # None)

MemberHolds(m) ==
    /\ StrIn(m.member_id, 3, 10)
    /\ StrIn(m.name, 2, 50)
    /\ m.rank.t = "enum"
    /\ m.rank.v \in {"cadet", "officer", "lieutenant", "captain", "commander"}
    /\ NumIn(m.age, "int", 18, 80)
    /\ StrIn(m.specialization, 3, 30)
    /\ NumIn(m.years_experience, "int", 0, 50)
    /\ m.is_active.t = "bool"

MissionHolds(r) ==
    /\ StrIn(r.mission_id, 5, 15)
    /\ StrIn(r.mission_name, 3, 100)
    /\ StrIn(r.destination, 3, 50)
    /\ r.launch_date.t = "datetime"
    /\ NumIn(r.duration_days, "int", 1, 3650)
    /\ r.crew.t = "list"
    /\ Len(r.crew.v) >= 1 /\ Len(r.crew.v) <= 12
    /\ \A i \in 1..Len(r.crew.v) :
          r.crew.v[i].t = "CrewMember" /\ MemberHolds(r.crew.v[i].v)
    /\ r.mission_status.t = "str"
    /\ NumIn(r.budget_millions, "float", 10, 100000)
    /\ r.mission_id.v[1] = "M"
    /\ \E i \in 1..Len(r.crew.v) :
          r.crew.v[i].v.rank.v \in {"captain", "commander"}
    /\ (r.duration_days.v > 365 =>
          2 * Cardinality({i \in 1..Len(r.crew.v) :
                              r.crew.v[i].v.years_experience.v >= 5})
            >= Len(r.crew.v))
    /\ \A i \in 1..Len(r.crew.v) : r.crew.v[i].v.is_active.v

SchemaHolds(c, r) ==
    CASE c = "SpaceStation" -> StationHolds(r)
      [] c = "AlienContact" -> ContactHolds(r)
      [] c = "CrewMember" -> MemberHolds(r)
      [] c = "SpaceMission" -> MissionHolds(r)

(* the value a nominal keyword argument stands for *)

ExpectedDefault(f) ==
    CASE f = "is_operational" -> Bool(TRUE)
      [] f = "notes" -> None
      [] f = "message_received" -> None
      [] f = "is_verified" -> Bool(FALSE)
      [] f = "is_active" -> Bool(TRUE)
      [] f = "mission_status" -> Str(<<"p", "l", "a", "n", "n", "e", "d">>)

ExpectedScalar(f, raw) ==
    CASE raw = Absent -> ExpectedDefault(f)
      [] raw = Str(s_Six) /\ f = "crew_size" -> Int_(6)
      [] raw = Int_(100) /\ f = "power_level" -> Float(1000)
      [] raw = Str(s_Date_2024_02_29) -> Datetime(2024, 2, 29, 0, 0, 0)
      [] raw = Str(s_Date_2024_01_15T10_30_00) -> Datetime(2024, 1, 15, 10, 30, 0)
      [] raw = Str(s_Date_2024_12_12) -> Datetime(2024, 12, 12, 0, 0, 0)
      [] raw = Str(s_Date_2024_01_01) -> Datetime(2024, 1, 1, 0, 0, 0)
      [] raw = Str(s_Visual) /\ f = "contact_type" -> Enum("visual")
      [] raw = Str(s_CaptainText) /\ f = "rank" -> Enum("captain")
      [] OTHER -> raw

ExpectedMember(raw) ==
    IF raw.t = "CrewMember" THEN raw
    ELSE [t |-> "CrewMember",
          v |-> [f \in DOMAIN raw.v |-> ExpectedScalar(f, raw.v[f])]]

Expected(f, raw) ==
    IF f = "crew"
    THEN List([i \in 1..Len(raw.v) |-> ExpectedMember(raw.v[i])])
    ELSE ExpectedScalar(f, raw)

\* position of field f in the declaration of class c
Index(c, f) == CHOOSE i \in 1..Len(FieldsOf(c)) : FieldsOf(c)[i].name = f

\* the argument is of the field's numeric or string type and outside a
\* declared bound of the field
OutOfBound(d, raw) ==
    \/ /\ d.type = "str" /\ raw.t = "str"
       /\ \/ \E b \in d.min_length : Len(raw.v) < b
          \/ \E b \in d.max_length : Len(raw.v) > b
    \/ /\ d.type \in {"int", "float"} /\ raw.t = d.type
       /\ \/ \E b \in d.ge : raw.v < b
          \/ \E b \in d.le : raw.v > b
    \/ /\ d.type = "float" /\ raw.t = "int"
       /\ \/ \E b \in d.ge : 10 * raw.v < b
          \/ \E b \in d.le : 10 * raw.v > b

BoundViolators ==
    {f \in DOMAIN input : OutOfBound(FieldsOf(cls)[Index(cls, f)], input[f])}


----------------------------------------------------------------------------
(* Properties *)

\* C1: a constructed value never violates its schema.  Whenever a constructor
\* has returned an instance, every declared field bound and every rule of
\* validate_rules holds on it (for SpaceMission on every crew element too),
\* and an instance is returned only by a finished call that evaluated every
\* rule and reported no error.
ValidatedRecordHoldsSchema ==
    outcome = "ok" =>
        /\ pc = "done"
        /\ errors = <<>>
        /\ (HasRules(cls) => evaluated = 1..4)
        /\ SchemaHolds(cls, self)

FullCrewMissionConstructed ==
    /\ Done("SpaceMission")
    /\ outcome = "ok"
    /\ Len(self.crew.v) = 12

\* C2: a field-level failure short-circuits the rule stage.  For every call of
\* AlienContact or SpaceMission with a missing, uncoercible or out-of-bound
\* argument, no rule of validate_rules is evaluated and the report holds
\* field-level errors only.
FieldFailureSkipsRules ==
    (pc # "idle" /\ HasRules(cls) /\ SomeFaulty) =>
        /\ evaluated = {}
        /\ divisor = {}
        /\ pc = "done"
        /\ outcome = "raised"
        /\ errors # <<>>
        /\ RuleErrors = <<>>

\* a contact with duration_minutes = 0 whose id also breaks the prefix rule
FieldFailureWithBrokenRule ==
    /\ Done("AlienContact")
    /\ input.duration_minutes = Int_(0)
    /\ input.contact_id = Str(s_AB_2024_001)
    /\ input.contact_type = Enum("physical")
    /\ input.is_verified = Absent
    /\ Len(errors) = 1

TwoBoundViolationsTwoErrors ==
    (pc = "done" /\ cls \in {"SpaceStation", "AlienContact"}
       /\ Cardinality(BoundViolators) = 2
       /\ \A f \in DOMAIN input \ BoundViolators :
             input[f] \in NominalOf(cls)[f]) =>
        /\ Len(errors) = 2
        /\ {errors[1].loc, errors[2].loc} = {<<f>> : f \in BoundViolators}
        /\ Index(cls, errors[1].loc[1]) < Index(cls, errors[2].loc[1])
        /\ errors[1].type \in BoundErrorTypes
        /\ errors[2].type \in BoundErrorTypes

TwoFieldsOutOfBound ==
    /\ Done("SpaceStation")
    /\ input.crew_size = Int_(23)
    /\ input.power_level = Float(1001)
    /\ BoundViolators = {"crew_size", "power_level"}
    /\ Len(errors) = 2

\* C5: every valid record is accepted.  For every call whose arguments all
\* satisfy the declared bounds and violate no rule, no error is ever reported,
\* and the finished call returns an instance whose fields equal the values
\* the arguments stand for (absent arguments their defaults).
ValidRecordAccepted ==
    (pc # "idle" /\ AllNominal /\ Violated = {}) =>
        /\ outcome # "raised"
        /\ errors = <<>>
        /\ (pc = "done" =>
              /\ outcome = "ok"
              /\ \A f \in DOMAIN input : self[f] = Expected(f, input[f]))

\* a station given crew_size as the string "6" and no is_operational
CoercedStationAccepted ==
    /\ Done("SpaceStation")
    /\ AllNominal
    /\ input.crew_size = Str(s_Six)
    /\ input.is_operational = Absent
    /\ input.last_maintenance = Str(s_Date_2024_02_29)
    /\ outcome = "ok"

\* C6: the experience-threshold rule.  For every field-valid mission whose id
\* starts with 'M', with a captain or commander and all crew active, the call
\* fails with exactly the experience-threshold error if and only if
\* duration_days > 365 and experienced / crew size x 100 is below 50;
\* otherwise (50% or more, or duration_days <= 365) it succeeds.
ExperienceThreshold ==
    (Done("SpaceMission") /\ AllNominal /\ ArgStartsM /\ ArgSenior # {}
       /\ ArgInactive = {}) =>
        IF ArgLong /\ ArgBelowHalf
        THEN outcome = "raised" /\ errors = <<RuleError("SpaceMission", 3)>>
        ELSE outcome = "ok" /\ errors = <<>>

\* 900 days, one of three members with 5 years or more
OneOfThreeExperienced ==
    /\ Done("SpaceMission")
    /\ AllNominal
    /\ input.duration_days = Int_(900)
    /\ Len(ArgCrew) = 3
    /\ Cardinality(ArgExperienced) = 1
    /\ errors = <<RuleError("SpaceMission", 3)>>

\* C7: the all-crew-active rule.  For every field-valid mission that satisfies
\* the other three rules and has exactly one crew member with is_active
\* false, the report holds exactly one error, the all-crew-active one,
\* whatever the crew size.
OneInactiveOneError ==
    (Done("SpaceMission") /\ AllNominal /\ ArgStartsM /\ ArgSenior # {}
       /\ ~(ArgLong /\ ArgBelowHalf) /\ Cardinality(ArgInactive) = 1) =>
        /\ outcome = "raised"
        /\ errors = <<RuleError("SpaceMission", 4)>>

OneInactiveOfTwelve ==
    /\ Done("SpaceMission")
    /\ AllNominal
    /\ Len(ArgCrew) = 12
    /\ Cardinality(ArgInactive) = 1
    /\ errors = <<RuleError("SpaceMission", 4)>>

\* C8: an empty crew list is rejected at the field stage (too_short at crew)
\* with no rule evaluated, the division of validate_rules is only ever
\* evaluated with a crew size of at least 1, and no call ends in
\* ZeroDivisionError.
EmptyCrewNeverDivides ==
    /\ (Called("SpaceMission") /\ input.crew = List(<<>>)) =>
          /\ evaluated = {}
          /\ pc = "done"
          /\ outcome = "raised"
          /\ \E i \in 1..Len(errors) :
                errors[i] = Error("too_short", <<"crew">>)
    /\ \A n \in divisor : n >= 1
    /\ outcome # "ZeroDivisionError"

EmptyCrewRejected ==
    /\ Done("SpaceMission")
    /\ input.crew = List(<<>>)
    /\ input.duration_days = Int_(900)
    /\ errors = <<Error("too_short", <<"crew">>)>>

\* C9: a single bound violation of SpaceStation.  For every call whose other
\* arguments are valid, an integer crew_size above 20 yields exactly one
\* error, less_than_equal at crew_size, and one below 1 exactly one error,
\* greater_than_equal at crew_size.
CrewSizeBoundSingleError ==
    (Done("SpaceStation") /\ input.crew_size.t = "int"
       /\ \A f \in DOMAIN input \ {"crew_size"} :
             input[f] \in StationNominal[f]) =>
        /\ (input.crew_size.v > 20 =>
               errors = <<Error("less_than_equal", <<"crew_size">>)>>)
        /\ (input.crew_size.v < 1 =>
               errors = <<Error("greater_than_equal", <<"crew_size">>)>>)

CrewSize23Rejected ==
    /\ Done("SpaceStation")
    /\ input.crew_size = Int_(23)
    /\ input.is_operational = Bool(FALSE)
    /\ input.last_maintenance = Str(s_Date_2024_01_15T10_30_00)
    /\ errors = <<Error("less_than_equal", <<"crew_size">>)>>

\* C10: the AlienContact identifier rule is a strict string-prefix check.  For
\* every field-valid contact, once the first rule has been evaluated the call
\* has failed with the prefix rule's error if and only if the first two
\* characters of contact_id are not 'A' then 'C', whatever follows them.
StrictPrefixCheck ==
    (Called("AlienContact") /\ AllNominal /\ pc # "rule1") =>
        /\ 1 \in evaluated
        /\ (errors = <<RuleError("AlienContact", 1)>>) <=> ~ArgStartsAC
        /\ ~ArgStartsAC => pc = "done" /\ outcome = "raised"

\* main()'s second contact: "AC2024_001" passes the prefix rule and the call
\* fails on the telepathic rule
NoSeparatorPassesPrefix ==
    /\ Done("AlienContact")
    /\ input.contact_id = Str(s_AC2024_001)
    /\ input.contact_type = Enum("telepathic")
    /\ input.witness_count = Int_(1)
    /\ errors = <<RuleError("AlienContact", 3)>>

=============================================================================
